---------------------------- MODULE Spec2Model ----------------------------
(***************************************************************************)
(* Model of the gossip simulation engine of gossip_algorithm.py:           *)
(* GossipNode, Message and GossipSimulator.                                *)
(*                                                                         *)
(* Probabilities are integers in percent (0.1 is 10, 0.05 is 5, 0.8 is     *)
(* 80, 1.0 is 100).  A trial `random.random() < p` draws from [0, 1): it   *)
(* never succeeds for p <= 0, always succeeds for p >= 1 and may do either *)
(* in between.  Coordinates are integers; a placement draws each node's    *)
(* position from a finite set of points of the region                      *)
(* [50, width - 50] x [50, height - 50].                                   *)
(*                                                                         *)
(* A message identifier f"msg_{message_counter}_{node_id}" is the pair     *)
(* <<message_counter, node_id>>.  A Message is a record of its id,         *)
(* source_node and hop_count; content is a function of source_node and     *)
(* timestamp is never read, so neither is kept.                            *)
(***************************************************************************)
EXTENDS Integers, Sequences, FiniteSets, TLC

VARIABLES
    num_nodes,                  \* GossipSimulator.num_nodes
    x, y,                       \* GossipNode.x, GossipNode.y, per node
    neighbors,                  \* GossipNode.neighbors, per node
    state,                      \* GossipNode.state, per node
    messages,                   \* keys of GossipNode.messages, per node
    message_history,            \* GossipNode.message_history, per node
    infection_probability,      \* GossipNode.infection_probability, per node
    recovery_probability,       \* GossipNode.recovery_probability, per node
    running,                    \* GossipSimulator.running
    step_count,                 \* GossipSimulator.step_count
    message_counter,            \* GossipSimulator.message_counter
    gossip_fanout,              \* GossipSimulator.gossip_fanout
    transmission_probability,   \* GossipSimulator.transmission_probability
    max_hop_count,              \* GossipSimulator.max_hop_count
    lastOp,                     \* the public operation called last
    raised,                     \* the exception the last call raised, or "none"
    created,                    \* identifiers of the messages delivered since
                                \* construction; recorded by StepRecorded only
    is_running,                 \* GossipVisualization.is_running
    pending                     \* number of _animate callbacks that root.after
                                \* scheduled and that have not run yet

nodeVars  == <<state, messages, message_history>>
probVars  == <<infection_probability, recovery_probability>>
topoVars  == <<num_nodes, x, y, neighbors>>
paramVars == <<gossip_fanout, transmission_probability, max_hop_count>>
guiVars   == <<is_running, pending>>
vars == <<num_nodes, x, y, neighbors, state, messages, message_history,
          infection_probability, recovery_probability, running, step_count,
          message_counter, gossip_fanout, transmission_probability,
          max_hop_count, lastOp, raised, created, is_running, pending>>

---------------------------------------------------------------------------
(* Bounds of the model *)

\* largest node count an engine is constructed with
MaxNodes == 3
\* step() is not called on a running engine whose step counter reached this
MaxSteps == 2
\* step() is not called on a running engine when its gossip rounds would take
\* the message counter beyond this
MaxMessages == 2

\* largest node count of an engine that is constructed and makes no gossip
\* round (SpecTopology)
MaxTopologyNodes == 4

\* the number of steps in which a recovery trial may fail: from the step
\* that finds the step counter at this value on, every trial of a node whose
\* recovery probability is positive succeeds (SpecFair)
MaxTrialSteps == 3

\* the start and pause/continue buttons are not pressed while this many
\* _animate callbacks are scheduled (SpecGui)
MaxPending == 3

---------------------------------------------------------------------------
(* Program constants *)

Width == 800
Height == 600
Margin == 50
DefaultFanout == 3
DefaultTransmission == 80
DefaultMaxHop == 10
DefaultInfection == 10
DefaultRecovery == 5

SUSCEPTIBLE == "susceptible"
INFECTED == "infected"
REMOVED == "removed"
NodeState == {SUSCEPTIBLE, INFECTED, REMOVED}

Min(a, b) == IF a <= b THEN a ELSE b

\* outcomes of `random.random() < p`
Trial(p) == IF p <= 0 THEN {FALSE} ELSE IF p >= 100 THEN {TRUE} ELSE {TRUE, FALSE}

---------------------------------------------------------------------------
(* Construction: _initialize_nodes, _build_network_topology,               *)
(* _ensure_connectivity                                                    *)

NodeIds(n) == 0 .. (n - 1)

\* min(width, height) * 0.15
connection_radius == (Min(Width, Height) * 15) \div 100

\* the points a node is placed on: all inside the region, two pairs of them
\* exactly connection_radius apart and one pair further apart
Points ==
    {<<Margin, Margin>>,
     <<Margin + connection_radius, Margin>>,
     <<Margin + connection_radius, Margin + connection_radius>>}

\* distance <= connection_radius, both sides squared
WithinRadius(px, py, i, j) ==
    (px[i] - px[j]) * (px[i] - px[j]) + (py[i] - py[j]) * (py[i] - py[j])
        <= connection_radius * connection_radius

\* AddEdge without node2.add_neighbor(i)
AddEdgeOneWay(nbrs, i, j) ==
    [k \in DOMAIN nbrs |-> IF k = i THEN nbrs[k] \cup {j} ELSE nbrs[k]]

\* add_neighbor on both ends
AddEdge(nbrs, i, j) ==
    [k \in DOMAIN nbrs |->
        IF k = i THEN nbrs[k] \cup {j}
        ELSE IF k = j THEN nbrs[k] \cup {i}
        ELSE nbrs[k]]

\* the double loop of _build_network_topology
RadiusLinks(n, px, py) ==
    [i \in NodeIds(n) |->
        {j \in NodeIds(n) : j # i /\ WithinRadius(px, py, i, j)}]

\* the visited set dfs(node_id) leaves
RECURSIVE dfs(_, _)
dfs(nbrs, visited) ==
    LET next == visited \cup UNION {nbrs[v] : v \in visited}
    IN  IF next = visited THEN visited ELSE dfs(nbrs, next)

\* Repair with the target drawn from the unvisited nodes too
RECURSIVE RepairAnyTarget(_, _, _)
RepairAnyTarget(nbrs, visited, unvisited) ==
    IF unvisited = {} THEN {nbrs}
    ELSE IF visited = {} THEN {nbrs}
    ELSE UNION {UNION {RepairAnyTarget(
                          [k \in DOMAIN nbrs |->
                              IF k = node_id THEN nbrs[k] \cup {target}
                              ELSE IF k = target THEN nbrs[k] \cup {node_id}
                              ELSE nbrs[k]],
                          visited \cup {node_id}, unvisited \ {node_id})
                       : target \in (visited \cup unvisited) \ {node_id}}
                : node_id \in unvisited}

\* the repair loop: each unvisited node, in the set's iteration order, is
\* linked to random.choice(list(visited)) and joins visited
RECURSIVE Repair(_, _, _)
Repair(nbrs, visited, unvisited) ==
    IF unvisited = {} THEN {nbrs}
    ELSE IF visited = {} THEN {nbrs}
    ELSE UNION {UNION {Repair(AddEdge(nbrs, node_id, target),
                              visited \cup {node_id}, unvisited \ {node_id})
                       : target \in visited}
                : node_id \in unvisited}

_ensure_connectivity(n, nbrs) ==
    LET visited == IF n > 0 THEN dfs(nbrs, {0}) ELSE {}
    IN  Repair(nbrs, visited, NodeIds(n) \ visited)

\* the neighbor relations _build_network_topology can leave for a placement
_build_network_topology(n, px, py) ==
    _ensure_connectivity(n, RadiusLinks(n, px, py))

\* every placement of n nodes on Points
Placements(n) == [NodeIds(n) -> Points]

\* _initialize_nodes and _build_network_topology for n nodes placed by one
\* of the placements P
Topology(n, P) ==
    /\ num_nodes = n
    /\ \E p \in P :
          /\ x = [i \in NodeIds(n) |-> p[i][1]]
          /\ y = [i \in NodeIds(n) |-> p[i][2]]
    /\ neighbors \in _build_network_topology(n, x, y)

\* the fields GossipNode.__init__ and GossipSimulator.__init__ set
Defaults ==
    /\ state = [i \in NodeIds(num_nodes) |-> SUSCEPTIBLE]
    /\ messages = [i \in NodeIds(num_nodes) |-> {}]
    /\ message_history = [i \in NodeIds(num_nodes) |-> <<>>]
    /\ infection_probability = [i \in NodeIds(num_nodes) |-> DefaultInfection]
    /\ recovery_probability = [i \in NodeIds(num_nodes) |-> DefaultRecovery]
    /\ running = FALSE
    /\ step_count = 0
    /\ message_counter = 0
    /\ gossip_fanout = DefaultFanout
    /\ transmission_probability = DefaultTransmission
    /\ max_hop_count = DefaultMaxHop
    /\ lastOp = "__init__"
    /\ raised = "none"
    /\ created = {}
    /\ is_running = FALSE
    /\ pending = 0

Init ==
    /\ \E n \in 1 .. MaxNodes : Topology(n, Placements(n))
    /\ Defaults

Nodes == NodeIds(num_nodes)

---------------------------------------------------------------------------
(* GossipNode *)

\* infect that leaves the state as it is
infectNever(s) == s

\* GossipNode.infect
infect(s) == IF s = SUSCEPTIBLE THEN INFECTED ELSE s

\* recover that returns the node to SUSCEPTIBLE
recoverToSusceptible(s, p) ==
    IF s = INFECTED THEN {IF t THEN SUSCEPTIBLE ELSE s : t \in Trial(p)} ELSE {s}

\* a recover() whose trial never succeeds
recoverNever(s, p) == {s}

\* GossipNode.recover: the states it can leave a node of state s in
recover(s, p) ==
    IF s = INFECTED THEN {IF t THEN REMOVED ELSE s : t \in Trial(p)} ELSE {s}

\* A world is the part of the engine a step() works on:
\* [state, messages, message_history, message_counter, raised].
World ==
    [state |-> state, messages |-> messages, message_history |-> message_history,
     message_counter |-> message_counter, raised |-> "none"]

\* GossipNode.receive_message on node id: the worlds it can leave
receive_message(w, id, message) ==
    IF message.id \in w.messages[id] THEN {w}
    ELSE LET w1 == [w EXCEPT !.messages[id] = @ \cup {message.id},
                             !.message_history[id] = Append(@, message)]
         IN  IF w1.state[id] = SUSCEPTIBLE
             THEN {IF t THEN [w1 EXCEPT !.state[id] = infect(@)] ELSE w1
                   : t \in Trial(infection_probability[id])}
             ELSE {w1}

---------------------------------------------------------------------------
(* GossipSimulator._gossip_step *)

\* k draws from the population with replacement
SampleWithReplacement(population, k) == [1 .. k -> population]

\* k distinct nodes drawn from all the nodes of the engine
SampleAnyNode(population, k) ==
    {s \in [1 .. k -> Nodes] : \A a, b \in 1 .. k : a # b => s[a] # s[b]}

\* random.sample(population, k): the orderings of k distinct elements
Sample(population, k) ==
    {s \in [1 .. k -> population] : \A a, b \in 1 .. k : a # b => s[a] # s[b]}

\* the loop over targets without the test of the hop count
RECURSIVE DeliveriesNoHopLimit(_, _)
DeliveriesNoHopLimit(r, targets) ==
    IF targets = <<>> THEN {r}
    ELSE LET target_id == Head(targets)
             sent == [r.message EXCEPT !.hop_count = @ + 1]
             stored == IF sent.id \in r.w.messages[target_id]
                       THEN r.holders ELSE r.holders \cup {target_id}
         IN  UNION {IF target_id \in Nodes /\ t
                    THEN UNION {DeliveriesNoHopLimit(
                                    [w |-> w2, message |-> sent, holders |-> stored],
                                    Tail(targets))
                                : w2 \in receive_message(r.w, target_id, sent)}
                    ELSE DeliveriesNoHopLimit(r, Tail(targets))
                    : t \in Trial(transmission_probability)}

\* The loop over targets.  A round r is [w, message, holders]: the world, the
\* round's one Message object and the nodes that stored that object.
RECURSIVE Deliveries(_, _)
Deliveries(r, targets) ==
    IF targets = <<>> THEN {r}
    ELSE LET target_id == Head(targets)
             sent == [r.message EXCEPT !.hop_count = @ + 1]
             stored == IF sent.id \in r.w.messages[target_id]
                       THEN r.holders ELSE r.holders \cup {target_id}
         IN  UNION {IF target_id \in Nodes /\ t /\ r.message.hop_count < max_hop_count
                    THEN UNION {Deliveries([w |-> w2, message |-> sent, holders |-> stored],
                                           Tail(targets))
                                : w2 \in receive_message(r.w, target_id, sent)}
                    ELSE Deliveries(r, Tail(targets))
                    : t \in Trial(transmission_probability)}

\* Every holder's history ends with the round's Message object, so it shows
\* the hop_count the object has when the round ends.
SharedMessage(r) ==
    [r.w EXCEPT !.message_history =
        [i \in DOMAIN @ |->
            IF i \in r.holders
            THEN [@[i] EXCEPT ![Len(@[i])] = r.message]
            ELSE @[i]]]

\* the worlds one gossip round of node can leave
_gossip_step(w, node) ==
    IF neighbors[node] = {} THEN {w}
    ELSE LET num_targets == Min(gossip_fanout, Cardinality(neighbors[node]))
         IN  IF num_targets < 0
             THEN {[w EXCEPT !.raised = "ValueError"]}
             ELSE LET message == [id |-> <<w.message_counter, node>>,
                                  source_node |-> node, hop_count |-> 0]
                      r0 == [w |-> [w EXCEPT !.message_counter = @ + 1],
                             message |-> message, holders |-> {}]
                  IN  UNION {{SharedMessage(r) : r \in Deliveries(r0, targets)}
                             : targets \in Sample(neighbors[node], num_targets)}

---------------------------------------------------------------------------
(* GossipSimulator.step *)

\* the nodes of a set in the order of self.nodes (ascending identifier)
RECURSIVE InOrder(_)
InOrder(S) ==
    IF S = {} THEN <<>>
    ELSE LET m == CHOOSE a \in S : \A b \in S : a <= b
         IN  <<m>> \o InOrder(S \ {m})

\* rounds over the live set of infected nodes: a node infected by a round
\* of this step gets a round of its own in the same step
RECURSIVE Cascade(_, _, _)
Cascade(w, todo, done) ==
    IF w.raised # "none" THEN {w}
    ELSE IF todo = <<>>
         THEN LET fresh == {i \in Nodes : w.state[i] = INFECTED} \ done
              IN  IF fresh = {} THEN {w}
                  ELSE Cascade(w, InOrder(fresh), done \cup fresh)
         ELSE UNION {Cascade(w2, Tail(todo), done)
                     : w2 \in _gossip_step(w, Head(todo))}

GossipRoundsCascade(ws, infected_nodes) ==
    UNION {Cascade(w, infected_nodes,
                   {infected_nodes[k] : k \in 1 .. Len(infected_nodes)})
           : w \in ws}

\* `for node in infected_nodes: self._gossip_step(node)`; an exception ends it
RECURSIVE GossipRounds(_, _)
GossipRounds(ws, infected_nodes) ==
    IF infected_nodes = <<>> THEN ws
    ELSE GossipRounds(
            UNION {IF w.raised # "none" THEN {w}
                   ELSE _gossip_step(w, Head(infected_nodes)) : w \in ws},
            Tail(infected_nodes))

\* the recovery loop run over the nodes that were INFECTED when the step began
RECURSIVE RecoverSnapshotOnly(_, _)
RecoverSnapshotOnly(ws, nodes) ==
    IF nodes = <<>> THEN ws
    ELSE RecoverSnapshotOnly(
            UNION {IF w.raised # "none" \/ state[Head(nodes)] # INFECTED THEN {w}
                   ELSE {[w EXCEPT !.state[Head(nodes)] = s]
                         : s \in {w.state[Head(nodes)], REMOVED}
                              \ IF recovery_probability[Head(nodes)] >= 100
                                 THEN {w.state[Head(nodes)]} ELSE {}}
                   : w \in ws},
            Tail(nodes))

\* `for node in self.nodes.values(): node.recover()`
RECURSIVE RecoverAll(_, _)
RecoverAll(ws, nodes) ==
    IF nodes = <<>> THEN ws
    ELSE RecoverAll(
            UNION {IF w.raised # "none" THEN {w}
                   ELSE {[w EXCEPT !.state[Head(nodes)] = s]
                         : s \in recover(w.state[Head(nodes)],
                                         recovery_probability[Head(nodes)])}
                   : w \in ws},
            Tail(nodes))

infected_nodes == InOrder({i \in Nodes : state[i] = INFECTED})

\* the worlds a step() of a running engine with infected nodes can leave
StepWorlds == RecoverAll(GossipRounds({World}, infected_nodes), InOrder(Nodes))

\* step() without the `if not self.running: return` of its first lines
StepCallUnguarded ==
    /\ step_count < MaxSteps
    /\ message_counter + Len(infected_nodes) <= MaxMessages
    /\ lastOp' = "step"
    /\ UNCHANGED <<topoVars, probVars, paramVars>>
    /\ step_count' = step_count + 1
    /\ IF infected_nodes = <<>>
       THEN /\ running' = FALSE
            /\ raised' = "none"
            /\ UNCHANGED <<nodeVars, message_counter>>
       ELSE /\ running' = running
            /\ \E w \in StepWorlds :
                  /\ state' = w.state
                  /\ messages' = w.messages
                  /\ message_history' = w.message_history
                  /\ message_counter' = w.message_counter
                  /\ raised' = w.raised

StepCall ==
    /\ running => /\ step_count < MaxSteps
                  /\ message_counter + Len(infected_nodes) <= MaxMessages
    /\ lastOp' = "step"
    /\ UNCHANGED <<topoVars, probVars, paramVars>>
    /\ IF ~running
       THEN /\ raised' = "none"
            /\ UNCHANGED <<nodeVars, running, step_count, message_counter>>
       ELSE /\ step_count' = step_count + 1
            /\ IF infected_nodes = <<>>
               THEN /\ running' = FALSE
                    /\ raised' = "none"
                    /\ UNCHANGED <<nodeVars, message_counter>>
               ELSE /\ running' = running
                    /\ \E w \in StepWorlds :
                          /\ state' = w.state
                          /\ messages' = w.messages
                          /\ message_history' = w.message_history
                          /\ message_counter' = w.message_counter
                          /\ raised' = w.raised

\* the messages a transition appends to node i's history
NewMessages(i) ==
    {message_history'[i][k] :
        k \in (Len(message_history[i]) + 1) .. Len(message_history'[i])}

Step == StepCall /\ UNCHANGED <<created, guiVars>>

\* step(), with the identifiers of the messages it delivers recorded
StepRecorded ==
    /\ StepCall
    /\ created' = created \cup {m.id : m \in UNION {NewMessages(i) : i \in Nodes}}
    /\ UNCHANGED guiVars

\* the worlds of a step() that fair recovery trials allow: while the step
\* counter is below MaxTrialSteps a trial may fail, from then on no node is
\* left INFECTED by a failed trial
FairStepWorlds ==
    {w \in StepWorlds :
        step_count >= MaxTrialSteps => \A i \in Nodes : w.state[i] # INFECTED}

\* step() called again and again, its recovery trials fair
StepFair ==
    /\ lastOp' = "step"
    /\ UNCHANGED <<topoVars, probVars, paramVars, created, guiVars>>
    /\ IF ~running
       THEN /\ raised' = "none"
            /\ UNCHANGED <<nodeVars, running, step_count, message_counter>>
       ELSE /\ step_count' = step_count + 1
            /\ IF infected_nodes = <<>>
               THEN /\ running' = FALSE
                    /\ raised' = "none"
                    /\ UNCHANGED <<nodeVars, message_counter>>
               ELSE /\ running' = running
                    /\ \E w \in FairStepWorlds :
                          /\ state' = w.state
                          /\ messages' = w.messages
                          /\ message_history' = w.message_history
                          /\ message_counter' = w.message_counter
                          /\ raised' = w.raised

---------------------------------------------------------------------------
(* GossipSimulator.start_gossip, reset_simulation, get_statistics *)

\* the argument lists of start_gossip, as sets of identifiers; num_nodes is
\* an identifier outside the valid range
StartArguments == SUBSET (0 .. num_nodes)

\* start_gossip without the loop that resets the nodes
StartGossipNoReset(initial_infected) ==
    /\ state' = [i \in Nodes |->
                    IF i \in initial_infected THEN infect(state[i]) ELSE state[i]]
    /\ step_count' = 0
    /\ running' = TRUE
    /\ lastOp' = "start_gossip"
    /\ raised' = "none"
    /\ UNCHANGED <<topoVars, probVars, paramVars, message_counter, created,
                   messages, message_history, guiVars>>

StartGossipCall(initial_infected) ==
    /\ state' = [i \in Nodes |->
                    IF i \in initial_infected THEN infect(SUSCEPTIBLE)
                    ELSE SUSCEPTIBLE]
    /\ messages' = [i \in Nodes |-> {}]
    /\ message_history' = [i \in Nodes |-> <<>>]
    /\ step_count' = 0
    /\ running' = TRUE
    /\ lastOp' = "start_gossip"
    /\ raised' = "none"
    /\ UNCHANGED <<topoVars, probVars, paramVars, message_counter, created>>

StartGossip(initial_infected) == StartGossipCall(initial_infected) /\ UNCHANGED guiVars

\* reset_simulation without the loop over the nodes
ResetSimulationCountersOnly ==
    /\ running' = FALSE
    /\ step_count' = 0
    /\ message_counter' = 0
    /\ lastOp' = "reset_simulation"
    /\ raised' = "none"
    /\ UNCHANGED <<topoVars, nodeVars, probVars, paramVars, created, guiVars>>

ResetSimulationCall ==
    /\ running' = FALSE
    /\ step_count' = 0
    /\ message_counter' = 0
    /\ state' = [i \in Nodes |-> SUSCEPTIBLE]
    /\ messages' = [i \in Nodes |-> {}]
    /\ message_history' = [i \in Nodes |-> <<>>]
    /\ lastOp' = "reset_simulation"
    /\ raised' = "none"
    /\ UNCHANGED <<topoVars, probVars, paramVars, created>>

ResetSimulation == ResetSimulationCall /\ UNCHANGED guiVars

\* the dictionary get_statistics returns
get_statistics ==
    [step |-> step_count,
     susceptible |-> Cardinality({i \in Nodes : state[i] = SUSCEPTIBLE}),
     infected |-> Cardinality({i \in Nodes : state[i] = INFECTED}),
     removed |-> Cardinality({i \in Nodes : state[i] = REMOVED}),
     total_messages |-> Cardinality({<<i, m>> \in Nodes \X UNION {messages[j] : j \in Nodes}
                                     : m \in messages[i]}),
     running |-> running]

GetStatistics ==
    /\ lastOp' = "get_statistics"
    /\ raised' = "none"
    /\ UNCHANGED <<topoVars, nodeVars, probVars, paramVars, running, step_count,
                   message_counter, created, guiVars>>

---------------------------------------------------------------------------
(* GossipSimulator.update_parameters *)

\* the attributes hasattr(self, key) finds on the engine
EngineAttributes ==
    {"num_nodes", "width", "height", "nodes", "running", "step_count",
     "message_counter", "gossip_fanout", "transmission_probability",
     "max_hop_count", "simulation_speed"}

\* the five parameters the specification recognizes
RecognizedKeys ==
    {"gossip_fanout", "transmission_probability", "max_hop_count",
     "infection_probability", "recovery_probability"}

\* the keyword a call passes, and the values it passes for it
UpdateKeys ==
    RecognizedKeys \cup {"running", "unknownField"}

UpdateValues(key) ==
    CASE key = "gossip_fanout" -> {DefaultFanout}
      [] key = "transmission_probability" -> {DefaultTransmission}
      [] key = "max_hop_count" -> {DefaultMaxHop}
      [] key = "infection_probability" -> {DefaultInfection}
      [] key = "recovery_probability" -> {DefaultRecovery}
      [] key = "running" -> BOOLEAN
      [] OTHER -> {1}

\* setattr(self, key, value) when hasattr(self, key), seen from attribute attr
SetAttr(attr, old, key, value) ==
    IF key = attr /\ key \in EngineAttributes THEN value ELSE old

UpdateParameters(key, value) ==
    /\ running' = SetAttr("running", running, key, value)
    /\ step_count' = SetAttr("step_count", step_count, key, value)
    /\ message_counter' = SetAttr("message_counter", message_counter, key, value)
    /\ gossip_fanout' = SetAttr("gossip_fanout", gossip_fanout, key, value)
    /\ transmission_probability' =
          SetAttr("transmission_probability", transmission_probability, key, value)
    /\ max_hop_count' = SetAttr("max_hop_count", max_hop_count, key, value)
    /\ infection_probability' =
          IF key = "infection_probability"
          THEN [i \in Nodes |-> value] ELSE infection_probability
    /\ recovery_probability' =
          IF key = "recovery_probability"
          THEN [i \in Nodes |-> value] ELSE recovery_probability
    /\ lastOp' = "update_parameters"
    /\ raised' = "none"
    /\ UNCHANGED <<topoVars, nodeVars, created, guiVars>>

---------------------------------------------------------------------------

Next ==
    \/ \E initial_infected \in StartArguments : StartGossip(initial_infected)
    \/ Step
    \/ \E key \in UpdateKeys : \E value \in UpdateValues(key) :
          UpdateParameters(key, value)
    \/ GetStatistics
    \/ ResetSimulation

Spec == Init /\ [][Next]_vars

\* the constructed engine under the calls that make no gossip round
NextTopology ==
    \/ \E initial_infected \in StartArguments : StartGossip(initial_infected)
    \/ GetStatistics
    \/ ResetSimulation

InitTopology ==
    /\ \E n \in 1 .. MaxTopologyNodes : Topology(n, Placements(n))
    /\ Defaults

SpecTopology == InitTopology /\ [][NextTopology]_vars

---------------------------------------------------------------------------
(* Scenario B: two nodes, infection and transmission probability 1.0,      *)
(* fanout 1, start_gossip([0]), step()                                     *)

ScenarioBKeys == {"infection_probability", "transmission_probability", "gossip_fanout"}

ScenarioBValues(key) == IF key = "gossip_fanout" THEN {1} ELSE {100}

InitB ==
    /\ Topology(2, Placements(2))
    /\ Defaults

NextB ==
    \/ \E key \in ScenarioBKeys : \E value \in ScenarioBValues(key) :
          UpdateParameters(key, value)
    \/ StartGossip({0})
    \/ Step
    \/ ResetSimulation

SpecB == InitB /\ [][NextB]_vars

---------------------------------------------------------------------------
(* Scenario D: ten nodes, recovery probability 1.0, start_gossip([0]),     *)
(* step(), step()                                                          *)

\* the first k nodes on point a, the others on point b
SplitPlacement(n, k, a, b) == [i \in NodeIds(n) |-> IF i < k THEN a ELSE b]

\* nodes 0 to 8 on the first point, node 9 on any point
PlacementsD == {SplitPlacement(10, 9, <<Margin, Margin>>, b) : b \in Points}

InitD ==
    /\ Topology(10, PlacementsD)
    /\ Defaults

\* the recovery probability is set before the gossip starts
NextD ==
    \/ UpdateParameters("recovery_probability", 100)
    \/ (\A i \in Nodes : recovery_probability[i] = 100) /\ StartGossip({0})
    \/ Step

SpecD == InitD /\ [][NextD]_vars

---------------------------------------------------------------------------
(* The message identifiers of an engine's lifetime: start_gossip, step and  *)
(* reset_simulation on a two-node engine, with the identifiers of the      *)
(* delivered messages recorded                                             *)

NextIds ==
    \/ \E initial_infected \in SUBSET Nodes : StartGossip(initial_infected)
    \/ StepRecorded
    \/ ResetSimulation

SpecIds == InitB /\ [][NextIds]_vars

---------------------------------------------------------------------------
(* update_parameters called with values outside the parameters' ranges, on *)
(* a two-node engine                                                       *)

OutOfRangeKeys == {"gossip_fanout", "transmission_probability", "recovery_probability"}

\* a negative and a zero fanout, a probability above 1 and one below 0
OutOfRangeValues(key) ==
    IF key = "gossip_fanout" THEN {-1, 0}
    ELSE IF key = "transmission_probability" THEN {150}
    ELSE {-10}

NextParams ==
    \/ \E key \in OutOfRangeKeys : \E value \in OutOfRangeValues(key) :
            UpdateParameters(key, value)
    \/ StartGossip({0})
    \/ Step

SpecParams == InitB /\ [][NextParams]_vars

---------------------------------------------------------------------------
(* Gossip rounds on a three-node engine under several fanouts, transmission *)
(* probabilities and hop limits                                            *)

RoundKeys == {"gossip_fanout", "transmission_probability", "max_hop_count"}

RoundValues(key) ==
    IF key = "gossip_fanout" THEN {1, 2}
    ELSE IF key = "transmission_probability" THEN {100}
    ELSE {1}

\* the three nodes on one point (every node linked to every other), or one
\* node on each point (node 1 linked to nodes 0 and 2, which are too far
\* apart to be linked)
PlacementsRounds ==
    {SplitPlacement(3, 3, <<Margin, Margin>>, <<Margin, Margin>>),
     [i \in NodeIds(3) |->
         <<Margin + (IF i >= 1 THEN connection_radius ELSE 0),
           Margin + (IF i >= 2 THEN connection_radius ELSE 0)>>]}

\* an engine of one node, which has no neighbor, or one of three nodes
InitRounds ==
    /\ \/ Topology(1, Placements(1))
       \/ Topology(3, PlacementsRounds)
    /\ Defaults

NextRounds ==
    \/ \E key \in RoundKeys : \E value \in RoundValues(key) :
            UpdateParameters(key, value)
    \/ \E initial_infected \in SUBSET Nodes : StartGossip(initial_infected)
    \/ Step

SpecRounds == InitRounds /\ [][NextRounds]_vars

---------------------------------------------------------------------------
(* One start_gossip on a two-node engine, the recovery probability left at *)
(* its default or set to 1 before, and then step() called for ever with    *)
(* fair recovery trials                                                    *)

InitFair ==
    /\ Topology(2, {SplitPlacement(2, 2, <<Margin, Margin>>, <<Margin, Margin>>)})
    /\ Defaults

NextFair ==
    \/ lastOp = "__init__" /\ UpdateParameters("recovery_probability", 100)
    \/ \E initial_infected \in SUBSET Nodes :
            /\ lastOp \in {"__init__", "update_parameters"}
            /\ StartGossip(initial_infected)
    \/ StepFair

SpecFair == InitFair /\ [][NextFair]_vars /\ WF_vars(StepFair)

---------------------------------------------------------------------------
(* GossipVisualization: the start, pause/continue and reset buttons and the *)
(* _animate callbacks that root.after schedules.  Tk runs one handler at a  *)
(* time, each to its end, so every handler is one action.                   *)

\* _animate() entered with is_running = flag and p callbacks still scheduled
_animate(flag, p) ==
    IF flag /\ running
    THEN /\ StepCall
         /\ is_running' = flag
         /\ pending' = p + 1
         /\ UNCHANGED created
    ELSE /\ is_running' = FALSE
         /\ pending' = p
         /\ UNCHANGED <<topoVars, nodeVars, probVars, paramVars, running,
                        step_count, message_counter, lastOp, raised, created>>

\* the world start_gossip([0]) leaves for the step() that follows it
StartedWorld ==
    [state |-> [i \in Nodes |-> IF i \in {0} THEN infect(SUSCEPTIBLE) ELSE SUSCEPTIBLE],
     messages |-> [i \in Nodes |-> {}],
     message_history |-> [i \in Nodes |-> <<>>],
     message_counter |-> message_counter,
     raised |-> "none"]

\* start_simulation: start_gossip([0]), is_running = True and _animate(),
\* which finds the engine running, steps it and schedules a callback
StartSimulation ==
    /\ pending < MaxPending
    /\ message_counter + 1 <= MaxMessages
    /\ \E w \in RecoverAll(
                  GossipRounds({StartedWorld},
                               InOrder({i \in Nodes : StartedWorld.state[i] = INFECTED})),
                  InOrder(Nodes)) :
          /\ state' = w.state
          /\ messages' = w.messages
          /\ message_history' = w.message_history
          /\ message_counter' = w.message_counter
          /\ raised' = w.raised
    /\ step_count' = 1
    /\ running' = TRUE
    /\ lastOp' = "step"
    /\ is_running' = TRUE
    /\ pending' = pending + 1
    /\ UNCHANGED <<topoVars, probVars, paramVars, created>>

\* toggle_simulation
ToggleSimulation ==
    /\ pending < MaxPending
    /\ IF is_running
       THEN /\ is_running' = FALSE
            /\ UNCHANGED <<topoVars, nodeVars, probVars, paramVars, running,
                           step_count, message_counter, lastOp, raised, created,
                           pending>>
       ELSE _animate(TRUE, pending)

\* GossipVisualization.reset_simulation
ResetButton ==
    /\ is_running' = FALSE
    /\ ResetSimulationCall
    /\ UNCHANGED pending

\* a scheduled _animate callback runs
AnimateCallback ==
    /\ pending > 0
    /\ _animate(is_running, pending - 1)

InitGui ==
    /\ \/ Topology(2, {SplitPlacement(2, 2, <<Margin, Margin>>, <<Margin, Margin>>)})
       \/ Topology(3, PlacementsRounds)
    /\ Defaults

NextGui ==
    \/ StartSimulation
    \/ ToggleSimulation
    \/ ResetButton
    \/ AnimateCallback

SpecGui == InitGui /\ [][NextGui]_vars

---------------------------------------------------------------------------
(* Properties *)

Rank(s) == CASE s = SUSCEPTIBLE -> 0 [] s = INFECTED -> 1 [] s = REMOVED -> 2

NoInfected == \A i \in Nodes : state[i] # INFECTED

\* the nodes a path of neighbor links leads to from the nodes of S
RECURSIVE ReachableFrom(_)
ReachableFrom(S) ==
    LET T == S \cup {j \in Nodes : \E i \in S : j \in neighbors[i]}
    IN  IF T = S THEN S ELSE ReachableFrom(T)

\* C1: no step() lowers a node's state in the order
\* SUSCEPTIBLE < INFECTED < REMOVED.
C1_StateNonDecreasing ==
    [][lastOp' = "step" => \A i \in Nodes : Rank(state'[i]) >= Rank(state[i])]_vars

\* a step() has left one node REMOVED and another INFECTED
C1_Witness ==
    /\ lastOp = "step"
    /\ step_count = 2
    /\ \E i, j \in Nodes : state[i] = REMOVED /\ state[j] = INFECTED

\* C2: a step() of a running engine with no INFECTED node sets running to
\* false, and the operation after that step() leaves running false unless it
\* is a start_gossip.
C2_HaltedStaysHalted ==
    [][/\ (running /\ NoInfected /\ lastOp' = "step") => ~running'
       /\ (/\ lastOp = "step" /\ step_count >= 1 /\ ~running /\ NoInfected
           /\ lastOp' # "start_gossip") => ~running']_vars

\* C3: after reset_simulation the statistics are step 0, every node
\* susceptible, none infected or removed, no message, not running.
C3_ResetStatistics ==
    lastOp = "reset_simulation" =>
        get_statistics = [step |-> 0, susceptible |-> num_nodes, infected |-> 0,
                          removed |-> 0, total_messages |-> 0, running |-> FALSE]

\* reset_simulation has been called on an engine of several nodes
C3_Witness == lastOp = "reset_simulation" /\ num_nodes >= 2

\* C4: for every placement the constructed graph is connected, and with at
\* least 2 nodes every node has a neighbor.
C4_Connected ==
    /\ \A i \in Nodes : ReachableFrom({i}) = Nodes
    /\ num_nodes >= 2 => \A i \in Nodes : neighbors[i] # {}

\* construction has linked two nodes that are further apart than the
\* connection radius
C4_Witness ==
    /\ lastOp = "__init__"
    /\ \E i, j \in Nodes : j \in neighbors[i] /\ ~WithinRadius(x, y, i, j)

\* C5: the neighbor relation is symmetric in every reachable state.
C5_Symmetric ==
    \A i, j \in Nodes : j \in neighbors[i] <=> i \in neighbors[j]

\* a step() has been made on a graph with a radius link and a repair link
C5_Witness ==
    /\ lastOp = "step"
    /\ step_count >= 1
    /\ \E i, j \in Nodes : j \in neighbors[i] /\ ~WithinRadius(x, y, i, j)
    /\ \E i, j \in Nodes : i # j /\ j \in neighbors[i] /\ WithinRadius(x, y, i, j)

\* scenario B has made its one step()
ScenarioBStepped ==
    /\ num_nodes = 2
    /\ neighbors[0] = {1} /\ neighbors[1] = {0}
    /\ \A i \in Nodes : infection_probability[i] = 100
    /\ \A i \in Nodes : recovery_probability[i] = DefaultRecovery
    /\ transmission_probability = 100
    /\ gossip_fanout = 1
    /\ max_hop_count = DefaultMaxHop
    /\ lastOp = "step"
    /\ step_count = 1

\* C6 as claimed: after the one step() of scenario B node 1 is INFECTED.
C6_Original == ScenarioBStepped => state[1] = INFECTED

\* C6 as amended: after the one step() of scenario B node 1 has received
\* node 0's message and is INFECTED or, its recovery trial of the same step
\* having succeeded, REMOVED.
C6_InfectedOrRemoved ==
    ScenarioBStepped =>
        /\ state[1] \in {INFECTED, REMOVED}
        /\ Len(message_history[1]) = 1
        /\ message_history[1][1].source_node = 0

\* scenario B has left node 1 INFECTED
C6_Witness == ScenarioBStepped /\ state[1] = INFECTED

\* scenario D has made its two step() calls
ScenarioDStepped ==
    /\ num_nodes = 10
    /\ \A i \in Nodes : recovery_probability[i] = 100
    /\ lastOp = "step"
    /\ step_count = 2

\* the nodes other than 0 that step 1 infected: no later call of the
\* scenario changes a node that is not INFECTED
InfectedInStepOne == {i \in Nodes \ {0} : state[i] # SUSCEPTIBLE}

\* C7 as claimed: after the two step() calls of scenario D node 0 is REMOVED
\* and running is true exactly when step 1 infected another node.
C7_Original ==
    ScenarioDStepped =>
        /\ state[0] = REMOVED
        /\ running <=> InfectedInStepOne # {}

\* C7 as amended: after the two step() calls of scenario D node 0 is REMOVED,
\* every node step 1 infected is REMOVED too and running is false, whether
\* or not step 1 infected another node.
C7_AllRemovedNotRunning ==
    ScenarioDStepped =>
        /\ state[0] = REMOVED
        /\ \A i \in InfectedInStepOne : state[i] = REMOVED
        /\ ~running

\* scenario D has ended with a node other than 0 infected in step 1
C7_Witness == ScenarioDStepped /\ InfectedInStepOne # {}

\* C8: an update_parameters call with a field outside the five recognized
\* ones raises InvalidArgument.
C8_UnknownFieldRejected ==
    [][\A key \in UpdateKeys \ RecognizedKeys : \A value \in UpdateValues(key) :
          UpdateParameters(key, value) => raised' = "InvalidArgument"]_vars

\* C9: an update_parameters call with a field outside the five recognized
\* ones changes nothing of the engine, whatever the field's name.
C9_UnknownFieldNoEffect ==
    [][\A key \in UpdateKeys \ RecognizedKeys : \A value \in UpdateValues(key) :
          UpdateParameters(key, value) =>
              UNCHANGED <<paramVars, running, step_count, message_counter,
                          topoVars, nodeVars, probVars>>]_vars

\* C10: a start_gossip call with an identifier outside the valid range raises
\* an error and leaves node states, message sets, step counter and running
\* flag as they were.
C10_InvalidIdRejected ==
    [][\A initial_infected \in StartArguments :
          (~(initial_infected \subseteq Nodes) /\ StartGossip(initial_infected)) =>
              /\ raised' # "none"
              /\ UNCHANGED <<nodeVars, step_count, running>>]_vars


\* C11: from any reachable state, start_gossip(ids) with every identifier
\* valid leaves exactly the nodes of ids INFECTED and every other node
\* SUSCEPTIBLE, whatever they were before, every node's message set and
\* history empty, the step counter 0 and the engine running, and leaves the
\* neighbor relation as it was.
C11_StartGossipResets ==
    [][\A initial_infected \in SUBSET Nodes :
          (lastOp' = "start_gossip" /\ StartGossip(initial_infected)) =>
              /\ \A i \in Nodes :
                    /\ state'[i] = IF i \in initial_infected
                                   THEN INFECTED ELSE SUSCEPTIBLE
                    /\ messages'[i] = {}
                    /\ message_history'[i] = <<>>
              /\ step_count' = 0
              /\ running'
              /\ neighbors' = neighbors]_vars

\* a start_gossip that followed a round: messages were created, and the
\* engine holds an infected node and no message
C11_Witness ==
    /\ lastOp = "start_gossip"
    /\ message_counter >= 1
    /\ \E i \in Nodes : state[i] = INFECTED
    /\ \E i \in Nodes : state[i] = SUSCEPTIBLE
    /\ \A i \in Nodes : messages[i] = {} /\ message_history[i] = <<>>

\* C12: message identifiers are unique for the engine's lifetime: across
\* any sequence of start_gossip, step and reset_simulation calls, no step
\* delivers a message whose identifier an earlier round's message carried.
C12_IdentifiersUnique ==
    [][lastOp' = "step" =>
          \A i \in Nodes : \A m \in NewMessages(i) : m.id \notin created]_vars

\* C13: step() called while the engine is not running is a no-op: the step
\* counter, the message counter, the running flag, every node's state and
\* every node's message set and history are unchanged.
C13_StepNotRunningNoOp ==
    [][(~running /\ Step) =>
          UNCHANGED <<step_count, message_counter, running, state, messages,
                      message_history>>]_vars

\* a step() on an engine that is not running although a node is INFECTED and
\* holds a neighbor to gossip to: only the early return keeps it from a round
C13_Witness ==
    /\ lastOp = "step"
    /\ ~running
    /\ \E i \in Nodes : state[i] = INFECTED /\ neighbors[i] # {}

\* C14: the hop count recorded for a delivered message is that of a single
\* path: every delivery of a gossip round carries hop count 1, however many
\* other targets the round delivered to, so every message a node has recorded
\* has hop count 1.
C14_HopCountOne ==
    \A i \in Nodes :
        \A k \in 1 .. Len(message_history[i]) : message_history[i][k].hop_count = 1

\* C15: in every reachable state the fanout is a positive integer, the max
\* hop count is a positive integer and every probability lies in [0,1] (a
\* call supplying a fanout <= 0 or a probability outside [0,1] has no
\* effect), and the neighbor sampling of step() has not failed.
C15_ParametersValid ==
    /\ gossip_fanout > 0
    /\ max_hop_count > 0
    /\ transmission_probability \in 0 .. 100
    /\ \A i \in Nodes : /\ infection_probability[i] \in 0 .. 100
                        /\ recovery_probability[i] \in 0 .. 100
    /\ raised # "ValueError"

\* the nodes that were INFECTED when the transition began
Snapshot == {i \in Nodes : state[i] = INFECTED}

\* the nodes to which a transition delivered a message of sender s
Receivers(s) == {i \in Nodes : \E m \in NewMessages(i) : m.source_node = s}

\* C17: propagation in a step uses the snapshot taken when the step began:
\* every message a step() delivers has as origin a node that was INFECTED
\* when the step began, and the step creates no more messages than the
\* snapshot has nodes, so a node infected during the step originates none.
C17_SnapshotOrigins ==
    [][lastOp' = "step" =>
          /\ \A i \in Nodes : \A m \in NewMessages(i) : m.source_node \in Snapshot
          /\ message_counter' - message_counter <= Cardinality(Snapshot)]_vars

\* after the first step with certain transmission, a node is INFECTED and
\* holds a message although no message of its own reached anyone: it was
\* infected during the step and had no round
C17_Witness ==
    /\ lastOp = "step"
    /\ step_count = 1
    /\ transmission_probability = 100
    /\ \E j \in Nodes :
          /\ state[j] = INFECTED
          /\ message_history[j] # <<>>
          /\ \A i \in Nodes : \A k \in 1 .. Len(message_history[i]) :
                message_history[i][k].source_node # j

\* C18: in a step, each snapshot node with at least one neighbor creates
\* exactly one message and a node without neighbors none (the message
\* counter grows by the number of snapshot nodes that have a neighbor); the
\* targets a sender reaches are neighbors of the sender and at most
\* min(fanout, neighbor count) many, and exactly that many distinct ones
\* when every transmission succeeds and the hop limit does not cut in.
C18_RoundTargets ==
    [][(running /\ lastOp' = "step") =>
          /\ message_counter' - message_counter
                = Cardinality({s \in Snapshot : neighbors[s] # {}})
          /\ \A s \in Nodes :
                LET num_targets == Min(gossip_fanout, Cardinality(neighbors[s]))
                IN  /\ Receivers(s) \subseteq neighbors[s]
                    /\ Cardinality(Receivers(s)) <= num_targets
                    /\ (s \in Snapshot /\ transmission_probability >= 100
                            /\ max_hop_count >= num_targets)
                        => Cardinality(Receivers(s)) = num_targets]_vars

\* a first step with fanout 1 and certain transmission in which a sender
\* with two neighbors reached exactly one of them
C18_Witness ==
    /\ lastOp = "step"
    /\ step_count = 1
    /\ gossip_fanout = 1
    /\ transmission_probability = 100
    /\ message_counter >= 1
    /\ \E s \in Nodes :
          /\ Cardinality(neighbors[s]) = 2
          /\ Cardinality({i \in Nodes : \E k \in 1 .. Len(message_history[i]) :
                              message_history[i][k].source_node = s}) = 1

\* C19: infection spreads only along edges from carriers: a node that is
\* SUSCEPTIBLE before a step() and not SUSCEPTIBLE after it received in that
\* step a new message whose origin is a neighbor that was INFECTED when the
\* step began, and a node without such a neighbor stays SUSCEPTIBLE.
C19_InfectionAlongEdges ==
    [][lastOp' = "step" =>
          \A i \in Nodes :
              /\ (state[i] = SUSCEPTIBLE /\ state'[i] # SUSCEPTIBLE) =>
                    \E m \in NewMessages(i) :
                        m.source_node \in neighbors[i] \cap Snapshot
              /\ (state[i] = SUSCEPTIBLE /\ neighbors[i] \cap Snapshot = {}) =>
                    state'[i] = SUSCEPTIBLE]_vars

\* after a first step, node i left SUSCEPTIBLE on a message, while node k,
\* no neighbor of any sender of i's messages, received nothing and is
\* SUSCEPTIBLE
C19_Witness ==
    /\ lastOp = "step"
    /\ step_count = 1
    /\ \E i, k \in Nodes :
          /\ state[i] # SUSCEPTIBLE
          /\ message_history[i] # <<>>
          /\ state[k] = SUSCEPTIBLE
          /\ message_history[k] = <<>>
          /\ \A n \in 1 .. Len(message_history[i]) :
                message_history[i][n].source_node \notin neighbors[k]

\* C20: in a gossip round the number of successful deliveries is at most
\* min(fanout, neighbor count, max hop count), and no message a step
\* delivers has a hop count above the max hop count of that step.
C20_DeliveriesBounded ==
    [][(running /\ lastOp' = "step") =>
          /\ \A s \in Nodes :
                Cardinality(Receivers(s))
                    <= Min(Min(gossip_fanout, Cardinality(neighbors[s])),
                           max_hop_count)
          /\ \A i \in Nodes : \A m \in NewMessages(i) :
                m.hop_count <= max_hop_count]_vars

\* a first step with max hop count 1, fanout 2 or more and certain
\* transmission: a sender with two neighbors reached one of them, with hop
\* count 1, and the other received nothing
C20_Witness ==
    /\ lastOp = "step"
    /\ step_count = 1
    /\ max_hop_count = 1
    /\ gossip_fanout >= 2
    /\ transmission_probability = 100
    /\ \E s \in Nodes : \E i, k \in neighbors[s] :
          /\ i # k
          /\ message_history[k] = <<>>
          /\ Len(message_history[i]) = 1
          /\ message_history[i][1].source_node = s
          /\ message_history[i][1].hop_count = 1

C22_OnePendingCallback == pending <= 1

===========================================================================
